---- MODULE Spec2Model ----
(***************************************************************************)
(* switchy: a store of config items, each with named states, kept in a     *)
(* TOML file.  One run of the binary (main -> main_wrapper) loads the      *)
(* store, serves one of add / remove / list / switch, and exits.           *)
(*                                                                         *)
(* Strings are sequences of characters, so that trim, is_empty and exact    *)
(* comparison are computed as the code computes them.  A character is a    *)
(* one-character string, or "U+XXXX" for a character that a TLA+ string    *)
(* cannot hold.  Vec indices are 1-based here (Rust index i is i+1), and 0 *)
(* stands for None.                                                        *)
(***************************************************************************)
EXTENDS Naturals, Sequences, FiniteSets

VARIABLES
    file,        \* the config directory and config.toml: [dir, exists, lines]
    config,      \* cm.config.items of the running (or last) process
    pc,          \* where the process is: "exited" or the prompt it waits at
    cli,         \* the parsed command line: [kind, name]
    states,      \* main_wrapper's local `states` in the add branch
    pending,     \* the trimmed state name whose command is being asked
    supplied,    \* what the user typed at the state prompts, untrimmed
    itemIndex,   \* main_wrapper's local item_index in the switch branch
    result,      \* what main_wrapper returned ("running" until it returns),
                 \* or how Cli::parse ended the process: "usage", "help"
    exitStatus,  \* the exit status of the process
    reported,    \* whether the error was written to stderr
    events,      \* the file and store operations of this run, in order
    file0,       \* the file as it was when this run started
    config0      \* the store as cm.read() left it

vars == <<file, config, pc, cli, states, pending, supplied, itemIndex,
          result, exitStatus, reported, events, file0, config0>>

----------------------------------------------------------------------------
(* Bounds and input alphabets *)

MaxItems == 3
MaxStates == 2

\* --add arguments; clap accepts an empty argument
ItemNames == {<<>>, <<"a">>}

\* --remove / ITEM arguments, compared with the names in the store; a
\* missing ITEM becomes "" by unwrap_or
LookupNames == ItemNames \cup {<<"A">>}

\* what the user may type at "State name" and "State command"
\* (dialoguer's Input asks again on an empty line, so every input has a
\* character; a blank one is empty once trimmed)
StateNameInputs == {<<"U+3000">>, <<"x">>, <<" ", "y", "U+00A0">>}
CommandInputs == {<<"U+3000", "c", " ">>}

\* the stores, and the names handed to set_current_state, that the
\* operations of config.rs are exercised on directly
UnitItemNames == {<<"a">>, <<"A">>}
UnitStateNames == {<<"x">>, <<"y">>}
UnitCommands == {<<"c">>, <<"d">>}
TransitionNames == {<<>>, <<"x">>, <<"y">>, <<"z">>}

----------------------------------------------------------------------------
(* Strings *)

\* char::is_whitespace: the characters with the Unicode White_Space property
WhiteSpace ==
    {" ", "\t", "\n", "\r", "U+000B", "U+000C", "U+0085", "U+00A0", "U+1680",
     "U+2000", "U+2001", "U+2002", "U+2003", "U+2004", "U+2005", "U+2006",
     "U+2007", "U+2008", "U+2009", "U+200A", "U+2028", "U+2029", "U+202F",
     "U+205F", "U+3000"}

RECURSIVE TrimStart(_)
TrimStart(s) ==
    IF s = <<>> THEN s
    ELSE IF Head(s) \in WhiteSpace THEN TrimStart(Tail(s)) ELSE s

RECURSIVE TrimEnd(_)
TrimEnd(s) ==
    IF s = <<>> THEN s
    ELSE IF s[Len(s)] \in WhiteSpace THEN TrimEnd(SubSeq(s, 1, Len(s) - 1)) ELSE s

\* str::trim
Trim(s) == TrimEnd(TrimStart(s))

\* String::is_empty
IsEmpty(s) == Len(s) = 0

----------------------------------------------------------------------------
(* config.rs: the item *)

\* ConfigItem::get_state_names
GetStateNames(item) == [i \in 1..Len(item.states) |-> item.states[i].name]

\* Iterator::position over a Vec of strings: first index, 0 for None
Position(names, name) ==
    IF \E i \in 1..Len(names) : names[i] = name
    THEN CHOOSE i \in 1..Len(names) :
            /\ names[i] = name
            /\ \A j \in 1..(i - 1) : names[j] # name
    ELSE 0

Event(op, arg) == [op |-> op, arg |-> arg]

\* ConfigItem::set_current_state: assigns current, prints "Switching", then
\* for the first state of that name, if any, prints "Running", runs its
\* command and waits for it.  stdoutOk is whether the println! calls, which
\* all come before the command, could write (println! panics otherwise),
\* spawnOk whether the host could start the shell; `log` are the operations
\* performed; `res` is "ok" for Ok(()), "spawn" for the spawn error,
\* "stdout_panic" for the panic.
SetCurrentState(item, new_state, spawnOk, stdoutOk) ==
    LET idx == Position(GetStateNames(item), new_state)
    IN  [item |-> [item EXCEPT !.current = new_state],
         log |-> <<Event("mutate", <<>>)>> \o
                 (IF idx = 0 \/ ~stdoutOk THEN <<>>
                  ELSE <<Event("spawn", item.states[idx].command)>>),
         res |-> IF ~stdoutOk THEN "stdout_panic"
                 ELSE IF idx = 0 \/ spawnOk THEN "ok" ELSE "spawn"]

----------------------------------------------------------------------------
(* config.rs: the file.  toml::to_string_pretty writes the store as lines; *)
(* toml::from_str reads them back.  A line is [key, val].                  *)

Line(k, v) == [key |-> k, val |-> v]

\* no config directory; the directory without config.toml
NoDir == [dir |-> FALSE, exists |-> FALSE, lines |-> <<>>]
NoFile == [dir |-> TRUE, exists |-> FALSE, lines |-> <<>>]

\* the beginning of a line whose end was not written
TornLine == Line("torn", <<>>)

RECURSIVE SerializeStates(_)
SerializeStates(sts) ==
    IF sts = <<>> THEN <<>>
    ELSE <<Line("[[items.states]]", <<>>),
           Line("name", Head(sts).name),
           Line("command", Head(sts).command)>> \o SerializeStates(Tail(sts))

SerializeItem(item) ==
    <<Line("[[items]]", <<>>),
      Line("type", <<"CommandItem">>),
      Line("name", item.name),
      Line("current", item.current)>> \o SerializeStates(item.states)

RECURSIVE SerializeItems(_)
SerializeItems(items) ==
    IF items = <<>> THEN <<>>
    ELSE SerializeItem(Head(items)) \o SerializeItems(Tail(items))

\* a serializer that leaves `current` out and writes the first state's name
SerializeNoCurrent(items) ==
    IF items = <<>> THEN <<Line("items", <<"[", "]">>)>>
    ELSE SerializeItems([i \in 1..Len(items) |->
            [items[i] EXCEPT !.current = items[i].states[1].name]])

\* toml::to_string_pretty(&Config)
Serialize(items) ==
    IF items = <<>> THEN <<Line("items", <<"[", "]">>)>>
    ELSE SerializeItems(items)

\* the last element of a non-empty sequence replaced
SetLast(s, x) == [s EXCEPT ![Len(s)] = x]

\* toml::from_str::<Config> on lines written by Serialize: inState tells
\* whether the open table is an [[items.states]] or an [[items]] one
RECURSIVE ParseLines(_, _, _)
ParseLines(lines, items, inState) ==
    IF lines = <<>> THEN items
    ELSE
      LET l == Head(lines)
          rest == Tail(lines)
          it == items[Len(items)]
          st == it.states[Len(it.states)]
      IN  CASE l.key = "items" -> ParseLines(rest, <<>>, FALSE)
            [] l.key = "[[items]]" ->
                 ParseLines(rest,
                     Append(items, [name |-> <<>>, current |-> <<>>, states |-> <<>>]),
                     FALSE)
            [] l.key = "[[items.states]]" ->
                 ParseLines(rest,
                     SetLast(items, [it EXCEPT !.states =
                         Append(it.states, [name |-> <<>>, command |-> <<>>])]),
                     TRUE)
            [] l.key = "type" -> ParseLines(rest, items, inState)
            [] l.key = "name" /\ ~inState ->
                 ParseLines(rest, SetLast(items, [it EXCEPT !.name = l.val]), inState)
            [] l.key = "current" ->
                 ParseLines(rest, SetLast(items, [it EXCEPT !.current = l.val]), inState)
            [] l.key = "name" /\ inState ->
                 ParseLines(rest,
                     SetLast(items, [it EXCEPT !.states =
                         SetLast(it.states, [st EXCEPT !.name = l.val])]),
                     inState)
            [] l.key = "command" ->
                 ParseLines(rest,
                     SetLast(items, [it EXCEPT !.states =
                         SetLast(it.states, [st EXCEPT !.command = l.val])]),
                     inState)

Parse(lines) == ParseLines(lines, <<>>, FALSE)

\* toml::from_str::<Config> accepts the lines, read from position `at`
\* (what was read before them): `items = []` alone, or items that each
\* have type, name, current and at least one state with name and command
RECURSIVE WellFormed(_, _)
WellFormed(lines, at) ==
    IF lines = <<>> THEN at \in {"array", "command"}
    ELSE
      LET k == Head(lines).key
          next ==
            CASE at = "start" /\ k = "items" -> "array"
              [] at \in {"start", "command"} /\ k = "[[items]]" -> "[[items]]"
              [] at = "[[items]]" /\ k = "type" -> "type"
              [] at = "type" /\ k = "name" -> "name"
              [] at = "name" /\ k = "current" -> "current"
              [] at \in {"current", "command"} /\ k = "[[items.states]]" -> "[[items.states]]"
              [] at = "[[items.states]]" /\ k = "name" -> "state name"
              [] at = "state name" /\ k = "command" -> "command"
              [] OTHER -> "error"
      IN  next # "error" /\ WellFormed(Tail(lines), next)

\* toml::from_str::<Config> returns an error: no `items`, a line or a
\* field missing
ParseFails(lines) == ~WellFormed(lines, "start")

\* ConfigManager::get_default_config
GetDefaultConfig == <<>>

\* fs::write has written everything
OkWrite == [kind |-> "ok", at |-> 0, torn |-> FALSE]

\* how fs::write of the store `items` can end: everything written; the
\* file not opened; or, after the open has created or truncated the file,
\* an error with `at` lines written and, if `torn`, the beginning of the
\* next one.  The error can come when every line is out (the last byte or
\* the close refused): the file then holds the whole text.
WriteOutcomes(items) ==
    {OkWrite, [kind |-> "open_failed", at |-> 0, torn |-> FALSE]} \cup
    {[kind |-> "cut", at |-> n, torn |-> t] :
        n \in 0..(Len(Serialize(items)) - 1), t \in BOOLEAN} \cup
    {[kind |-> "cut", at |-> Len(Serialize(items)), torn |-> FALSE]}

\* the text that went out before the write failed
Cut(text, n, torn) ==
    SubSeq(text, 1, n) \o (IF torn THEN <<TornLine>> ELSE <<>>)

\* ConfigManager::write: the file after the call.  fs::write opens the file
\* truncating it and then writes: without the directory, or when the open
\* fails, the file is left as it was; when the write fails after the open,
\* the file holds what was written until then, which may be all of it.
Write(items, f, outcome) ==
    IF ~f.dir \/ outcome.kind = "open_failed" THEN f
    ELSE IF outcome.kind = "cut"
    THEN [dir |-> TRUE, exists |-> TRUE,
          lines |-> Cut(Serialize(items), outcome.at, outcome.torn)]
    ELSE [dir |-> TRUE, exists |-> TRUE, lines |-> Serialize(items)]

\* ConfigManager::write returned Ok
WriteOk(f, outcome) == f.dir /\ outcome.kind = "ok"

\* a read that writes the store back after parsing it
ReadRewriting(items, f, readOk, outcome) ==
    LET g == [f EXCEPT !.dir = TRUE]
        got == IF g.exists /\ ~ParseFails(g.lines) THEN Parse(g.lines) ELSE items
    IN  IF ~readOk
        THEN [err |-> "io", config |-> items, file |-> f,
              log |-> <<Event("load", <<>>)>>]
        ELSE IF g.exists /\ ParseFails(g.lines)
        THEN [err |-> "parse", config |-> items, file |-> g,
              log |-> <<Event("load", <<>>)>>]
        ELSE [err |-> IF WriteOk(g, outcome) THEN "none" ELSE "io",
              config |-> got,
              file |-> Write(got, g, outcome),
              log |-> <<Event("load", <<>>), Event("write", <<>>)>>]

\* ConfigManager::read on a manager whose store is `items`:
\* create_dir_all makes the directory; an existing file is read and parsed
\* into the store, a missing one is written from the store.  readOk is
\* whether create_dir_all and read_to_string succeeded, outcome how the
\* write of a missing file ended; `err` is "none" for Ok(()).
Read(items, f, readOk, outcome) ==
    LET g == [f EXCEPT !.dir = TRUE]
    IN  IF ~readOk
        THEN [err |-> "io", config |-> items, file |-> f,
              log |-> <<Event("load", <<>>)>>]
        ELSE IF g.exists
        THEN IF ParseFails(g.lines)
             THEN [err |-> "parse", config |-> items, file |-> g,
                   log |-> <<Event("load", <<>>)>>]
             ELSE [err |-> "none", config |-> Parse(g.lines), file |-> g,
                   log |-> <<Event("load", <<>>)>>]
        ELSE [err |-> IF WriteOk(g, outcome) THEN "none" ELSE "io",
              config |-> items,
              file |-> Write(items, g, outcome),
              log |-> <<Event("load", <<>>), Event("write", <<>>)>>]

\* the outcomes of ConfigManager::new followed by cm.read() on f: the
\* directory or the file unreadable, the file read or not parsed, or a
\* missing file written (or not, or in part)
Loads(f) ==
    IF f.exists
    THEN {Read(GetDefaultConfig, f, TRUE, OkWrite),
          Read(GetDefaultConfig, f, FALSE, OkWrite)}
    ELSE {Read(GetDefaultConfig, f, TRUE, w) : w \in WriteOutcomes(GetDefaultConfig)}
         \cup {Read(GetDefaultConfig, f, FALSE, OkWrite)}

----------------------------------------------------------------------------
(* main.rs: helpers of main_wrapper *)

\* main.rs 40-41: ProjectDirs::from gives None (no home directory can be
\* found) and main_wrapper returns "Failed to get config dir" before any
\* ConfigManager is made: nothing is loaded and f is not touched
NoProjectDirs(f) ==
    [err |-> "config_dir", config |-> GetDefaultConfig, file |-> f, log |-> <<>>]

\* main.rs 40-43 on the directory f: the config directory not determined,
\* or ConfigManager::new and cm.read() with one of their outcomes
Starts(f) == {NoProjectDirs(f)} \cup Loads(f)

\* an existence test that looks at the first item only
ItemExistsFirst(items, name) ==
    items # <<>> /\ items[1].name = name

\* cm.config.items.iter().any(|item| item.get_name() == name)
ItemExists(items, name) ==
    \E i \in 1..Len(items) : items[i].name = name

\* a constructor that takes the last state as the current one
NewItemLast(name, sts) ==
    [name |-> name, current |-> sts[Len(sts)].name, states |-> sts]

\* ConfigItem::CommandItem(ConfigCommandItem { name, current: states[0].name, states })
NewItem(name, sts) ==
    [name |-> name, current |-> sts[1].name, states |-> sts]

\* Vec::swap_remove
SwapRemove(s, i) ==
    [j \in 1..(Len(s) - 1) |-> IF j = i THEN s[Len(s)] ELSE s[j]]

\* main: what the process does with main_wrapper's result.  An Ok and an
\* interrupted prompt are passed over; any other error is printed with
\* eprintln!, which panics (status 101) when stderr cannot be written
\* (stderrOk).  Otherwise main returns, so the status is 0.
MainExit(res, stderrOk) ==
    IF res \in {"ok", "interrupted"} THEN [status |-> 0, reported |-> FALSE]
    ELSE IF stderrOk THEN [status |-> 0, reported |-> TRUE]
    ELSE [status |-> 101, reported |-> FALSE]

----------------------------------------------------------------------------
(* The process *)

Prompts == {"add_type", "add_state_name", "add_state_cmd", "add_confirm",
            "sw_item", "sw_state", "sw_confirm"}

Init ==
    /\ file = NoDir
    /\ config = <<>>
    /\ pc = "exited"
    /\ cli = [kind |-> "none", name |-> <<>>]
    /\ states = <<>>
    /\ pending = <<>>
    /\ supplied = <<>>
    /\ itemIndex = 0
    /\ result = "ok"
    /\ exitStatus = 0
    /\ reported = FALSE
    /\ events = <<>>
    /\ file0 = NoDir
    /\ config0 = <<>>

\* main_wrapper returns res and main ends the process
Finish(res, stderrOk) ==
    /\ pc' = "exited"
    /\ result' = res
    /\ exitStatus' = MainExit(res, stderrOk).status
    /\ reported' = MainExit(res, stderrOk).reported

\* a panic of the main thread (res tells which): the panic message goes
\* to stderr, and is lost when stderr cannot be written (stderrOk); the
\* process ends with status 101
Panic(res, stderrOk) ==
    /\ pc' = "exited"
    /\ result' = res
    /\ exitStatus' = 101
    /\ reported' = stderrOk

\* main_wrapper is still running and waits at p
WaitAt(p) ==
    /\ pc' = p
    /\ result' = "running"
    /\ exitStatus' = 0
    /\ reported' = FALSE

\* a new process, started when no other is there, whose Cli::parse has
\* returned the command line (kind, name); then main.rs 40-43 ending as r: ProjectDirs::from failing, in which case
\* nothing is loaded (r.log is empty, r.err is "config_dir"), or
\* ConfigManager::new and cm.read() with its outcome
Start(kind, name, r) ==
    /\ pc = "exited"
    /\ cli.kind = "none"
    /\ cli' = [kind |-> kind, name |-> name]
    /\ file0' = file
    /\ config0' = r.config
    /\ states' = <<>>
    /\ pending' = <<>>
    /\ supplied' = <<>>

\* what Cli::parse (main.rs 194) does with a command line it does not
\* return from: clap writes its message and ends the process itself, before
\* main_wrapper is called.  A rejected command line (unknown or conflicting
\* arguments, a missing value, a second ITEM) goes to stderr with status 2;
\* --help and --version go to stdout with status 0.  clap passes over a
\* failure to write the message, so the status does not depend on it.
CliParseExit(kind, stderrOk) ==
    IF kind = "usage" THEN [status |-> 2, reported |-> stderrOk]
    ELSE [status |-> 0, reported |-> FALSE]

\* a new process, started when no other is there, that ends in Cli::parse:
\* no ConfigManager is made, nothing is loaded, the directory is not touched
CliParseEnds(kind, stderrOk) ==
    /\ pc = "exited"
    /\ cli.kind = "none"
    /\ cli' = [kind |-> kind, name |-> <<>>]
    /\ pc' = "exited"
    /\ result' = kind
    /\ exitStatus' = CliParseExit(kind, stderrOk).status
    /\ reported' = CliParseExit(kind, stderrOk).reported
    /\ file0' = file
    /\ UNCHANGED <<file, config, states, pending, supplied, itemIndex,
                   events, config0>>

\* switchy with a command line that clap rejects
InvokeRejected(stderrOk) == CliParseEnds("usage", stderrOk)

\* switchy --help, switchy --version
InvokeHelp == CliParseEnds("help", TRUE)

\* main.rs 164-168: the item is taken and the index of its current state is
\* unwrapped before the state prompt is shown
EnterStateSelect(items, idx, stderrOk) ==
    IF Position(GetStateNames(items[idx]), items[idx].current) = 0
    THEN Panic("panic", stderrOk)
    ELSE WaitAt("sw_state")

\* switchy --add NAME, up to the first prompt; r is how main.rs 40-43 ended,
\* stdoutOk whether "Adding config item" could be printed
InvokeAdd(name, r, stdoutOk, stderrOk) ==
    /\ Start("add", name, r)
    /\ ItemExists(r.config, name) \/ Len(r.config) < MaxItems
    /\ file' = r.file
    /\ config' = r.config
    /\ events' = r.log
    /\ itemIndex' = 0
    /\ IF r.err # "none" THEN Finish(r.err, stderrOk)
       ELSE IF ItemExists(r.config, name) THEN Finish("validation", stderrOk)
       ELSE IF ~stdoutOk THEN Panic("stdout_panic", stderrOk)
       ELSE WaitAt("add_type")

\* "The type of the item": the only choice, index 0; the loop is entered
\* with no states, prints "Adding default state" and asks "State name"
AddSelectType(stdoutOk, stderrOk) ==
    /\ pc = "add_type"
    /\ IF stdoutOk THEN WaitAt("add_state_name") ELSE Panic("stdout_panic", stderrOk)
    /\ UNCHANGED <<file, config, cli, states, pending, supplied, itemIndex,
                   events, file0, config0>>

\* "State name": trimmed, then checked for emptiness and reuse
AddStateName(input, stderrOk) ==
    /\ pc = "add_state_name"
    /\ supplied' = Append(supplied, [name |-> input, command |-> <<>>])
    /\ LET name == Trim(input)
       IN  IF IsEmpty(name)
           THEN Finish("validation", stderrOk) /\ pending' = pending
           ELSE IF \E i \in 1..Len(states) : states[i].name = name
           THEN Finish("validation", stderrOk) /\ pending' = pending
           ELSE WaitAt("add_state_cmd") /\ pending' = name
    /\ UNCHANGED <<file, config, cli, states, itemIndex, events, file0, config0>>

\* "State command": trimmed and pushed with the name; the loop comes round
\* to "To add another state?"
AddStateCommand(input) ==
    /\ pc = "add_state_cmd"
    /\ supplied' = SetLast(supplied, [supplied[Len(supplied)] EXCEPT !.command = input])
    /\ states' = Append(states, [name |-> pending, command |-> Trim(input)])
    /\ pending' = <<>>
    /\ WaitAt("add_confirm")
    /\ UNCHANGED <<file, config, cli, itemIndex, events, file0, config0>>

\* "To add another state?": yes goes back to "State name"; no leaves the
\* loop, builds the item, pushes it and writes the file
AddConfirm(another, outcome, stderrOk) ==
    /\ pc = "add_confirm"
    /\ IF another
       THEN /\ Len(states) < MaxStates
            /\ WaitAt("add_state_name")
            /\ UNCHANGED <<file, config, events>>
       ELSE /\ config' = Append(config, NewItem(cli.name, states))
            /\ file' = Write(config', file, outcome)
            /\ events' = events \o <<Event("mutate", <<>>), Event("write", <<>>)>>
            /\ Finish(IF WriteOk(file, outcome) THEN "ok" ELSE "io", stderrOk)
    /\ UNCHANGED <<cli, states, pending, supplied, itemIndex, file0, config0>>

\* cm.config.items.iter().position(|item| item.get_name() == name)
ItemPosition(items, name) ==
    Position([i \in 1..Len(items) |-> items[i].name], name)

\* switchy --remove NAME; stdoutOk is whether "Removing config item" could
\* be printed, which comes before the removal
InvokeRemove(name, r, outcome, stdoutOk, stderrOk) ==
    /\ Start("remove", name, r)
    /\ itemIndex' = 0
    /\ IF r.err # "none"
       THEN /\ file' = r.file
            /\ config' = r.config
            /\ events' = r.log
            /\ Finish(r.err, stderrOk)
       ELSE IF ItemPosition(r.config, name) # 0
       THEN IF stdoutOk
            THEN /\ config' = SwapRemove(r.config, ItemPosition(r.config, name))
                 /\ file' = Write(config', r.file, outcome)
                 /\ events' = r.log \o <<Event("mutate", <<>>), Event("write", <<>>)>>
                 /\ Finish(IF WriteOk(r.file, outcome) THEN "ok" ELSE "io", stderrOk)
            ELSE /\ file' = r.file
                 /\ config' = r.config
                 /\ events' = r.log
                 /\ Panic("stdout_panic", stderrOk)
       ELSE /\ file' = r.file
            /\ config' = r.config
            /\ events' = r.log
            /\ Finish("validation", stderrOk)

\* switchy --list; stdoutOk is whether the listing could be printed
InvokeList(r, stdoutOk, stderrOk) ==
    /\ Start("list", <<>>, r)
    /\ itemIndex' = 0
    /\ file' = r.file
    /\ config' = r.config
    /\ events' = r.log
    /\ IF r.err # "none" THEN Finish(r.err, stderrOk)
       ELSE IF stdoutOk THEN Finish("ok", stderrOk)
       ELSE Panic("stdout_panic", stderrOk)

\* switchy [ITEM], up to the first prompt: an exact name selects the item,
\* anything else opens the item prompt
InvokeSwitch(name, r, stderrOk) ==
    /\ Start("switch", name, r)
    /\ file' = r.file
    /\ config' = r.config
    /\ events' = r.log
    /\ itemIndex' = IF r.err = "none" THEN ItemPosition(r.config, name) ELSE 0
    /\ IF r.err # "none" THEN Finish(r.err, stderrOk)
       ELSE IF r.config = <<>> THEN Finish("validation", stderrOk)
       ELSE IF ItemPosition(r.config, name) # 0
       THEN EnterStateSelect(r.config, ItemPosition(r.config, name), stderrOk)
       ELSE WaitAt("sw_item")

\* the item prompt answered with the i-th item
SwitchSelectItem(i, stderrOk) ==
    /\ pc = "sw_item"
    /\ i \in 1..Len(config)
    /\ itemIndex' = i
    /\ EnterStateSelect(config, i, stderrOk)
    /\ UNCHANGED <<file, config, cli, states, pending, supplied, events,
                   file0, config0>>

\* main.rs 180: item.set_current_state(new_state)?, up to the point where
\* it waits in Command::output for the state's command to exit
RunSwitch(new_state, spawnOk, stdoutOk, stderrOk) ==
    LET t == SetCurrentState(config[itemIndex], new_state, spawnOk, stdoutOk)
    IN  /\ config' = [config EXCEPT ![itemIndex] = t.item]
        /\ events' = events \o t.log
        /\ file' = file
        /\ IF t.res = "ok" THEN WaitAt("sw_wait")
           ELSE IF t.res = "spawn" THEN Finish("spawn", stderrOk)
           ELSE Panic(t.res, stderrOk)

\* the state prompt answered with the j-th state: another state than the
\* current one is switched to at once, the current one asks for a reset
SwitchSelectState(j, spawnOk, stdoutOk, stderrOk) ==
    /\ pc = "sw_state"
    /\ LET state_names == GetStateNames(config[itemIndex])
           current_state_index == Position(state_names, config[itemIndex].current)
       IN  /\ j \in 1..Len(state_names)
           /\ IF j # current_state_index
              THEN RunSwitch(state_names[j], spawnOk, stdoutOk, stderrOk)
              ELSE WaitAt("sw_confirm") /\ UNCHANGED <<file, config, events>>
    /\ UNCHANGED <<cli, states, pending, supplied, itemIndex, file0, config0>>

\* "... is the current state. Reset?"
SwitchConfirm(reset, spawnOk, stdoutOk, stderrOk) ==
    /\ pc = "sw_confirm"
    /\ IF reset
       THEN RunSwitch(config[itemIndex].current, spawnOk, stdoutOk, stderrOk)
       ELSE Finish("ok", stderrOk) /\ UNCHANGED <<file, config, events>>
    /\ UNCHANGED <<cli, states, pending, supplied, itemIndex, file0, config0>>

\* what a run of `switchy --remove name` started by the state's command
\* does to the directory
NestedRemove(f, name) ==
    LET r == Read(GetDefaultConfig, f, TRUE, OkWrite)
    IN  IF r.err = "none" /\ ItemPosition(r.config, name) # 0
        THEN Write(SwapRemove(r.config, ItemPosition(r.config, name)), r.file, OkWrite)
        ELSE r.file

\* where set_current_state waits in Command::output for the state's
\* command: called by the switch branch, or called directly
Waiting == {"sw_wait", "unit_wait"}

\* while set_current_state waits in Command::output, the state's command
\* removes the config directory
CommandRemovesDir ==
    /\ pc \in Waiting
    /\ file.dir
    /\ file' = NoDir
    /\ UNCHANGED <<config, pc, cli, states, pending, supplied, itemIndex,
                   result, exitStatus, reported, events, file0, config0>>

\* while set_current_state waits in Command::output, the state's command
\* creates the config directory, without a config file
CommandCreatesDir ==
    /\ pc \in Waiting
    /\ ~file.dir
    /\ file' = NoFile
    /\ UNCHANGED <<config, pc, cli, states, pending, supplied, itemIndex,
                   result, exitStatus, reported, events, file0, config0>>

\* while set_current_state waits in Command::output, the state's command
\* runs `switchy --remove name` on the same directory
CommandRunsRemove(name) ==
    /\ pc \in Waiting
    /\ file' = NestedRemove(file, name)
    /\ file' # file
    /\ UNCHANGED <<config, pc, cli, states, pending, supplied, itemIndex,
                   result, exitStatus, reported, events, file0, config0>>

\* main.rs 180-181: the command has exited (its status is not looked at),
\* set_current_state returns Ok and cm.write()? follows
SwitchWrite(outcome, stderrOk) ==
    /\ pc = "sw_wait"
    /\ file' = Write(config, file, outcome)
    /\ events' = Append(events, Event("write", <<>>))
    /\ Finish(IF WriteOk(file, outcome) THEN "ok" ELSE "io", stderrOk)
    /\ UNCHANGED <<config, cli, states, pending, supplied, itemIndex,
                   file0, config0>>

\* main has returned and the process is gone: its memory is released and
\* only the directory is left
ProcessEnds ==
    /\ pc = "exited"
    /\ cli.kind # "none"
    /\ cli' = [kind |-> "none", name |-> <<>>]
    /\ config' = <<>>
    /\ states' = <<>>
    /\ pending' = <<>>
    /\ supplied' = <<>>
    /\ itemIndex' = 0
    /\ result' = "ok"
    /\ exitStatus' = 0
    /\ reported' = FALSE
    /\ events' = <<>>
    /\ file0' = file
    /\ config0' = <<>>
    /\ UNCHANGED <<file, pc>>

\* any prompt ended by the user's interrupt: interact()? returns the
\* dialoguer error of kind Interrupted, which main passes over
PromptInterrupted ==
    /\ pc \in Prompts
    /\ Finish("interrupted", TRUE)
    /\ UNCHANGED <<file, config, cli, states, pending, supplied, itemIndex,
                   events, file0, config0>>

\* any prompt failing on the terminal: interact()? returns a dialoguer
\* error of another kind, which main reports
PromptFails(stderrOk) ==
    /\ pc \in Prompts
    /\ Finish("prompt", stderrOk)
    /\ UNCHANGED <<file, config, cli, states, pending, supplied, itemIndex,
                   events, file0, config0>>

\* how main.rs 40-43 can end in a process started now
StartLoads == IF pc = "exited" /\ cli.kind = "none" THEN Starts(file) ELSE {}

\* The environment's choices are drawn where the code reaches them: a
\* println! or a write that the run does not come to has one outcome.
Next ==
    \/ \E n \in ItemNames, r \in StartLoads, e \in BOOLEAN :
          \E o \in IF r.err = "none" /\ ~ItemExists(r.config, n)
                   THEN BOOLEAN ELSE {TRUE} :
             InvokeAdd(n, r, o, e)
    \/ \E o, e \in BOOLEAN : AddSelectType(o, e)
    \/ \E s \in StateNameInputs, e \in BOOLEAN : AddStateName(s, e)
    \/ \E c \in CommandInputs : AddStateCommand(c)
    \/ \E a, e \in BOOLEAN :
          \E w \in IF a \/ pc # "add_confirm" THEN {OkWrite}
                   ELSE WriteOutcomes(Append(config, NewItem(cli.name, states))) :
             AddConfirm(a, w, e)
    \/ \E n \in LookupNames, r \in StartLoads, e \in BOOLEAN :
          \E o \in IF r.err = "none" /\ ItemPosition(r.config, n) # 0
                   THEN BOOLEAN ELSE {TRUE} :
             \E w \in IF r.err = "none" /\ ItemPosition(r.config, n) # 0 /\ o
                      THEN WriteOutcomes(SwapRemove(r.config, ItemPosition(r.config, n)))
                      ELSE {OkWrite} :
                InvokeRemove(n, r, w, o, e)
    \/ \E r \in StartLoads, e \in BOOLEAN :
          \E o \in IF r.err = "none" THEN BOOLEAN ELSE {TRUE} : InvokeList(r, o, e)
    \/ \E n \in LookupNames, r \in StartLoads, e \in BOOLEAN : InvokeSwitch(n, r, e)
    \/ \E i \in 1..MaxItems, e \in BOOLEAN : SwitchSelectItem(i, e)
    \/ \E j \in 1..MaxStates, s, o, e \in BOOLEAN : SwitchSelectState(j, s, o, e)
    \/ \E a, s, o, e \in BOOLEAN : SwitchConfirm(a, s, o, e)
    \/ CommandRemovesDir
    \/ CommandCreatesDir
    \/ \E n \in LookupNames : CommandRunsRemove(n)
    \/ \E e \in BOOLEAN :
          \E w \in IF pc = "sw_wait" THEN WriteOutcomes(config) ELSE {} :
             SwitchWrite(w, e)
    \/ PromptInterrupted
    \/ \E e \in BOOLEAN : PromptFails(e)
    \/ \E e \in BOOLEAN : InvokeRejected(e)
    \/ InvokeHelp
    \/ ProcessEnds

Spec == Init /\ [][Next]_vars

----------------------------------------------------------------------------
(* config.rs exercised directly: a store is built, and set_current_state,  *)
(* write and read are called on it                                         *)

UnitStates == [name : UnitStateNames, command : UnitCommands]

UnitStateLists ==
    {<<a>> : a \in UnitStates} \cup
    {p \in UnitStates \X UnitStates :
        p[1].name # p[2].name /\ p[1].command # p[2].command}

UnitItems ==
    UNION {{[name |-> n, current |-> sts[k].name, states |-> sts] :
               k \in 1..Len(sts), n \in UnitItemNames} : sts \in UnitStateLists}

UnitStores ==
    {<<>>} \cup {<<a>> : a \in UnitItems} \cup
    {p \in UnitItems \X UnitItems : p[1].name # p[2].name}

InitUnit ==
    /\ file \in {NoDir, NoFile}
    /\ config \in UnitStores
    /\ pc = "unit"
    /\ cli = [kind |-> "none", name |-> <<>>]
    /\ states = <<>>
    /\ pending = <<>>
    /\ supplied = <<>>
    /\ itemIndex = 0
    /\ result = "ok"
    /\ exitStatus = 0
    /\ reported = FALSE
    /\ events = <<>>
    /\ file0 = file
    /\ config0 = config

\* item.set_current_state(new_state) on the i-th item of the store: until
\* it returns or panics when no command is started, otherwise up to the
\* point where it waits in Command::output for the state's command to exit
\* (`result` is what it will return then)
UnitSetCurrentState(i, new_state, spawnOk, stdoutOk) ==
    /\ pc = "unit"
    /\ i \in 1..Len(config)
    /\ LET t == SetCurrentState(config[i], new_state, spawnOk, stdoutOk)
       IN  /\ config' = [config EXCEPT ![i] = t.item]
           /\ events' = t.log
           /\ result' = t.res
           /\ pc' = IF t.res = "ok" /\ Len(t.log) = 2
                    THEN "unit_wait" ELSE "switched"
    /\ cli' = [kind |-> "transition", name |-> new_state]
    /\ itemIndex' = i
    /\ UNCHANGED <<file, states, pending, supplied, exitStatus, reported,
                   file0, config0>>

\* the state's command has exited (its status is not looked at) and
\* set_current_state returns Ok
UnitCommandExits ==
    /\ pc = "unit_wait"
    /\ pc' = "switched"
    /\ UNCHANGED <<file, config, cli, states, pending, supplied, itemIndex,
                   result, exitStatus, reported, events, file0, config0>>

\* cm.write() of the store as it stands; `reported` keeps whether it
\* returned an error
UnitWrite(outcome) ==
    /\ pc = "unit"
    /\ file' = Write(config, file, outcome)
    /\ config0' = config
    /\ events' = Append(events, Event("write", <<>>))
    /\ result' = IF WriteOk(file, outcome) THEN "ok" ELSE "io"
    /\ reported' = ~WriteOk(file, outcome)
    /\ pc' = "saved"
    /\ UNCHANGED <<config, cli, states, pending, supplied, itemIndex,
                   exitStatus, file0>>

\* a new ConfigManager on the same directory, and cm.read() with outcome r
UnitRead(r) ==
    /\ pc \in {"unit", "saved"}
    /\ file0' = file
    /\ file' = r.file
    /\ config' = r.config
    /\ events' = events \o r.log
    /\ result' = IF r.err = "none" THEN "ok" ELSE r.err
    /\ pc' = "loaded"
    /\ UNCHANGED <<cli, states, pending, supplied, itemIndex, exitStatus,
                   reported, config0>>

\* cm.read() on the manager that holds the store
UnitReread(readOk, outcome) ==
    /\ pc \in {"unit", "saved"}
    /\ LET r == Read(config, file, readOk, outcome)
       IN  /\ file' = r.file
           /\ config' = r.config
           /\ events' = events \o r.log
           /\ result' = IF r.err = "none" THEN "ok" ELSE r.err
    /\ file0' = file
    /\ config0' = config
    /\ pc' = "reread"
    /\ UNCHANGED <<cli, states, pending, supplied, itemIndex, exitStatus,
                   reported>>

NextUnit ==
    \/ \E i \in 1..MaxItems, s \in TransitionNames, ok, o \in BOOLEAN :
          UnitSetCurrentState(i, s, ok, o)
    \/ CommandRemovesDir
    \/ CommandCreatesDir
    \/ \E n \in LookupNames : CommandRunsRemove(n)
    \/ UnitCommandExits
    \/ \E w \in WriteOutcomes(config) : UnitWrite(w)
    \/ \E r \in Loads(file) : UnitRead(r)
    \/ \E ok \in BOOLEAN, w \in WriteOutcomes(config) : UnitReread(ok, w)

SpecUnit == InitUnit /\ [][NextUnit]_vars

----------------------------------------------------------------------------
(* Properties.  Spec is the tool as it is run, one process after another,  *)
(* from a directory without a config file; SpecUnit calls the operations   *)
(* of config.rs on stores built directly.                                  *)

\* the operations of this run without their arguments
Ops == [i \in 1..Len(events) |-> events[i].op]

\* the commands handed to the shell in this run
Spawned == SelectSeq(events, LAMBDA e : e.op = "spawn")

Names(items) == {items[i].name : i \in 1..Len(items)}

StateNameSet(item) == {item.states[i].name : i \in 1..Len(item.states)}

\* the store a process starting now would load
Persisted == Read(GetDefaultConfig, file, TRUE, OkWrite).config

\* config.toml holding the empty store
EmptyStoreFile ==
    [dir |-> TRUE, exists |-> TRUE, lines |-> <<Line("items", <<"[", "]">>)>>]

\* the file as cm.read() leaves it when it succeeds
FileAfterLoad == IF file0.exists THEN file0 ELSE EmptyStoreFile

\* C1 as stated: set_current_state(s) leaves the item's current equal
\* to s; when s names a state of the item, the shell is invoked exactly
\* once, with that state's command; when s names no state, nothing is
\* invoked and the call returns Ok.
C1_SetCurrentStateAsStated ==
    pc = "switched" =>
        LET item == config[itemIndex]
            s == cli.name
        IN  /\ item.current = s
            /\ s \in StateNameSet(item) =>
                  /\ Len(Spawned) = 1
                  /\ \A k \in 1..Len(item.states) :
                        item.states[k].name = s =>
                            Spawned[1].arg = item.states[k].command
            /\ s \notin StateNameSet(item) =>
                  /\ Spawned = <<>>
                  /\ result = "ok"

\* a transition to the second state of an item: current assigned, and the
\* call panicking at a println! with no shell invoked
C1_WitnessPanic ==
    /\ pc = "switched"
    /\ result = "stdout_panic"
    /\ Len(config[itemIndex].states) = 2
    /\ cli.name = config[itemIndex].states[2].name
    /\ config0[itemIndex].current # cli.name
    /\ config[itemIndex].current = cli.name
    /\ Spawned = <<>>

\* C2: an add whose name is already in the store fails, and neither the
\* store in memory nor the config file is changed by it.
C2_DuplicateAddRejected ==
    (cli.kind = "add" /\ cli.name \in Names(config0)) =>
        /\ pc = "exited"
        /\ result = "validation"
        /\ config = config0
        /\ file = file0
        /\ Persisted = config0

\* an add of the name of the second of two items, rejected
C2_Witness ==
    /\ cli.kind = "add"
    /\ pc = "exited"
    /\ Len(config0) = 2
    /\ config0[2].name = cli.name
    /\ cli.name = <<"a">>
    /\ config0[1].name = <<>>
    /\ result = "validation"
    /\ file = file0

\* C3 as stated: a remove of an existing name takes exactly that item out
\* and keeps every other item; a remove of a name no item has fails and
\* leaves the store and the config file unchanged.
C3_RemoveAsStated ==
    cli.kind = "remove" =>
        IF cli.name \in Names(config0)
        THEN /\ Len(config) = Len(config0) - 1
             /\ cli.name \notin Names(config)
             /\ \A i \in 1..Len(config0) :
                   config0[i].name # cli.name =>
                       \E j \in 1..Len(config) : config[j] = config0[i]
        ELSE /\ result \in {"validation", "io", "parse", "config_dir"}
             /\ config = config0
             /\ file = file0

\* a remove of the name of the first of two items that panicked at
\* "Removing config item": both items still in the store and in the file
C3_WitnessPanic ==
    /\ cli.kind = "remove"
    /\ pc = "exited"
    /\ result = "stdout_panic"
    /\ exitStatus = 101
    /\ Len(config0) = 2
    /\ config0[1].name = cli.name
    /\ config = config0
    /\ file = file0
    /\ Persisted = config0

\* a remove of a missing name in a directory without a config file
C3_WitnessFresh ==
    /\ cli.kind = "remove"
    /\ result = "validation"
    /\ ~file0.exists
    /\ file = EmptyStoreFile

\* the state names and commands typed in this add, trimmed
SuppliedStates ==
    [i \in 1..Len(supplied) |->
        [name |-> Trim(supplied[i].name), command |-> Trim(supplied[i].command)]]

\* a state name typed in this add was blank or had been typed before
BadStateName ==
    \E i \in 1..Len(supplied) :
        \/ Trim(supplied[i].name) = <<>>
        \/ \E j \in 1..(i - 1) : Trim(supplied[j].name) = Trim(supplied[i].name)

\* a successful add has appended one item with the states typed, in order
AddedAsSupplied ==
    (cli.kind = "add" /\ pc = "exited" /\ result = "ok") =>
        /\ Len(config) = Len(config0) + 1
        /\ SubSeq(config, 1, Len(config0)) = config0
        /\ LET item == config[Len(config)]
           IN  /\ item.name = cli.name
               /\ item.states # <<>>
               /\ item.states = SuppliedStates
               /\ item.current = SuppliedStates[1].name
        /\ Persisted = config

\* C4 as stated: a successful add appends an item holding the supplied
\* states in order, current being the first; an add with an empty or
\* repeated state name fails without adding an item or writing the file.
C4_AddAsStated ==
    /\ AddedAsSupplied
    /\ (cli.kind = "add" /\ BadStateName) =>
          /\ pc = "exited"
          /\ result = "validation"
          /\ config = config0
          /\ file = file0
          /\ "write" \notin {Ops[i] : i \in 1..Len(Ops)}

\* C4: a successful add appends an item holding the supplied states
\* (trimmed) in order, current being the first; an add with a blank or
\* repeated state name fails without adding an item and without writing the
\* file after the load: the file is as the load left it, which for a
\* directory without a config file is the newly written empty store.
C4_Add ==
    /\ AddedAsSupplied
    /\ (cli.kind = "add" /\ BadStateName) =>
          /\ pc = "exited"
          /\ result = "validation"
          /\ config = config0
          /\ file = FileAfterLoad
          /\ Ops = IF file0.exists THEN <<"load">> ELSE <<"load", "write">>

\* an item of two states added, the second typed between blanks
C4_Witness ==
    /\ cli.kind = "add"
    /\ pc = "exited"
    /\ result = "ok"
    /\ Len(supplied) = 2
    /\ supplied[2].name = <<" ", "y", "U+00A0">>
    /\ config[Len(config)].states[2] = [name |-> <<"y">>, command |-> <<"c">>]
    /\ config[Len(config)].current = <<"x">>
    /\ Len(config) = 2

\* an add that failed on a state name of blanks only
C4_WitnessBlank ==
    /\ cli.kind = "add"
    /\ supplied # <<>>
    /\ supplied[Len(supplied)].name = <<"U+3000">>
    /\ result = "validation"

\* an add that failed on a state name typed twice, in a directory that had
\* a config file
C4_WitnessRejected ==
    /\ cli.kind = "add"
    /\ Len(supplied) = 2
    /\ Trim(supplied[1].name) = Trim(supplied[2].name)
    /\ file0.exists
    /\ result = "validation"

\* C5: a run that fails (rejected command line, config directory, load,
\* parse, save, prompt or spawn error, or a validation failure) ends with a non-zero exit status after reporting the error; a
\* run that completes, or whose prompt was interrupted, ends with status 0.
C5_FailureExitStatus ==
    pc = "exited" =>
        /\ result \in {"usage", "config_dir", "io", "parse", "validation",
                       "spawn", "prompt"} =>
              (reported /\ exitStatus # 0)
        /\ result \in {"ok", "interrupted", "help"} => exitStatus = 0

\* C6: every item's current is the name of one of its states, in memory and
\* in the config file, and the index of the current state is always found
\* when a switch looks it up.
C6_CurrentIsAState ==
    /\ \A i \in 1..Len(config) : config[i].current \in StateNameSet(config[i])
    /\ \A i \in 1..Len(Persisted) :
          Persisted[i].current \in StateNameSet(Persisted[i])
    /\ result # "panic"
    /\ pc \in {"sw_state", "sw_confirm"} =>
          Position(GetStateNames(config[itemIndex]), config[itemIndex].current) # 0

\* C7: no item of the store has an empty name, in memory or in the config
\* file: an add with an empty item name is rejected and adds nothing.
C7_ItemNamesNonEmpty ==
    (pc = "exited" /\ result = "ok") =>
        /\ \A i \in 1..Len(config) : config[i].name # <<>>
        /\ \A i \in 1..Len(Persisted) : Persisted[i].name # <<>>

\* C8: a store written by write and read back by read is the same store:
\* the same items in the same order, each with its name, current and states;
\* and read on a directory without a config file gives the empty store and
\* leaves a config file holding the empty store.
C8_RoundTrip ==
    (pc = "loaded" /\ result = "ok" /\ ~reported) =>
        IF file0.exists
        THEN /\ config = config0
             /\ file = file0
        ELSE /\ config = <<>>
             /\ file.exists
             /\ file.lines # <<>>
             /\ file = EmptyStoreFile
             /\ Read(GetDefaultConfig, file, TRUE, OkWrite).err = "none"
             /\ Read(GetDefaultConfig, file, TRUE, OkWrite).config = <<>>

\* a store of two items of two states, each in its second state, written
\* and read back
C8_Witness ==
    /\ pc = "loaded"
    /\ result = "ok"
    /\ ~reported
    /\ file0.exists
    /\ Len(config) = 2
    /\ Len(config[1].states) = 2
    /\ Len(config[2].states) = 2
    /\ config[2].current = config[2].states[2].name
    /\ config[1].current = config[1].states[2].name

\* read on a directory without a config file
C8_WitnessFresh ==
    /\ pc = "loaded"
    /\ result = "ok"
    /\ ~file0.exists
    /\ file = EmptyStoreFile

\* a save that failed after the first item was written, and a load that
\* returns that item alone
C8_WitnessCut ==
    /\ pc = "loaded"
    /\ result = "ok"
    /\ reported
    /\ Len(config0) = 2
    /\ config = <<config0[1]>>

\* the current of every item of a store
Currents(items) == [i \in 1..Len(items) |-> <<items[i].name, items[i].current>>]

\* C9 as stated: a switch run that has assigned current has the file's
\* current of each item equal to the one in memory when it ends, also when
\* the shell could not be started.
C9_PersistAsStated ==
    (cli.kind = "switch" /\ pc = "exited" /\ result \in {"ok", "spawn"}) =>
        Currents(Persisted) = Currents(config)

\* a switch to another state whose shell could not be started: current is
\* assigned in memory, no write follows, and the file keeps the old current
C9_WitnessSpawnFailed ==
    /\ cli.kind = "switch"
    /\ pc = "exited"
    /\ result = "spawn"
    /\ Ops = <<"load", "mutate", "spawn">>
    /\ config[itemIndex].current # config0[itemIndex].current
    /\ file = file0
    /\ Persisted = config0
    /\ Currents(Persisted) # Currents(config)

\* the operations on the store and the file, without the shell invocations
StoreOps == SelectSeq(Ops, LAMBDA o : o # "spawn")

C10_WitnessOneWrite ==
    /\ cli.kind = "remove"
    /\ result = "ok"
    /\ file0.exists
    /\ StoreOps = <<"load", "mutate", "write">>

\* a switch in a process that could not determine its config directory:
\* nothing loaded, the config file as it was
C10_WitnessNoLoad ==
    /\ cli.kind = "switch"
    /\ pc = "exited"
    /\ result = "config_dir"
    /\ reported
    /\ StoreOps = <<>>
    /\ file.exists
    /\ file = file0

\* switchy --help in a directory without a config file: status 0, nothing
\* loaded, and still no config file
C10_WitnessHelp ==
    /\ cli.kind = "help"
    /\ pc = "exited"
    /\ exitStatus = 0
    /\ ~reported
    /\ Ops = <<>>
    /\ file = NoFile

\* a rejected command line in a directory with a config file: status 2,
\* nothing loaded, the config file as it was
C10_WitnessRejected ==
    /\ cli.kind = "usage"
    /\ pc = "exited"
    /\ exitStatus = 2
    /\ reported
    /\ Ops = <<>>
    /\ file.exists
    /\ file = file0

====
